---- MODULE Spec2Model ----
(***************************************************************************)
(* roman_datamodels: the tagged node / schema validation core.             *)
(*   stnode.py    DNode attribute read / write, schema resolution,         *)
(*                tag registries and class synthesis from the manifest     *)
(*   validate.py  value_change, _check_type, _error_message                *)
(***************************************************************************)
EXTENDS Integers, Sequences, FiniteSets, TLC

VARIABLES
    validate,           \* stnode.validate (module global)
    strict_validation,  \* stnode.strict_validation (module global)
    registries,         \* the three by-tag registries, the scalar by-key table, the classes
    imp,                \* position of the module import (hand-written classes, manifest loop)
    tagSchema,          \* the schema document the schema registry returns for the root's tag
    heap,               \* the raw mappings (python dicts), by identity
    nodes,              \* the node instances (DNode / TaggedObjectNode), by creation order
    last,               \* what the last attribute read / write did
    rs,                 \* a call of _get_schema_for_property: document, attr, result
    eng,                \* a call of _value_change / value_change: arguments, result
    flat,               \* a call of to_flat_dict / items: tree, flag, result
    ctor,               \* a call of DNode(...) / LNode(...): argument, outcome
    opn                 \* a call of datamodels.open: init, target, outcome

\* the records of the calls of flattening, construction and open
calls == <<flat, ctor, opn>>

vars == <<validate, strict_validation, registries, imp, tagSchema, heap, nodes, last, rs, eng,
          calls>>

----------------------------------------------------------------------------
(* Values.  cls: the name of the scalar node class the value was promoted  *)
(* to (<<>> for a plain value); t: its python type; v: its text (for a     *)
(* dict, its identity).                                                    *)

Val(cls, t, v) == [cls |-> cls, t |-> t, v |-> v]
VStr(s)  == Val(<<>>, "str", s)
VNum(s)  == Val(<<>>, "num", s)
VNull    == Val(<<>>, "null", "None")
VTime(s) == Val(<<>>, "time", s)
VDict(d) == Val(<<>>, "dict", d)
NoValue  == Val(<<>>, "absent", "")

_VALID_ORIGIN    == {"STSCI", "IPAC/SSC"}
_VALID_TELESCOPE == {"ROMAN"}

\* python's `value in [<strings>]`: equality with one of the strings
InList(value, list) == value.t = "str" /\ value.v \in list

\* str(value), the constructor of a (str, TaggedScalarNode) class
StrOf(value) == IF value.t = "dict" THEN "{...}" ELSE value.v

----------------------------------------------------------------------------
(* Schema documents: python dicts with the keys properties, allOf, anyOf,  *)
(* type and enum.  hasProps tells a present `properties` block from an     *)
(* absent one; an absent combiner is the empty list; type "" is no type.   *)

Schema(hasProps, props, allOf, anyOf, type, hasEnum, enum) ==
    [hasProps |-> hasProps, props |-> props, allOf |-> allOf, anyOf |-> anyOf,
     type |-> type, hasEnum |-> hasEnum, enum |-> enum]

EmptySchema == Schema(FALSE, <<>>, <<>>, <<>>, "", FALSE, {})
FStr        == Schema(FALSE, <<>>, <<>>, <<>>, "string", FALSE, {})
FNum        == Schema(FALSE, <<>>, <<>>, <<>>, "number", FALSE, {})
FEnum       == Schema(FALSE, <<>>, <<>>, <<>>, "", TRUE, _VALID_ORIGIN)
Props(p)    == Schema(TRUE, p, <<>>, <<>>, "", FALSE, {})
AllOf(bs)   == Schema(FALSE, <<>>, bs, <<>>, "", FALSE, {})
Comb(hasProps, p, allOf, anyOf) == Schema(hasProps, p, allOf, anyOf, "", FALSE, {})

----------------------------------------------------------------------------
(* stnode._get_schema_for_property                                         *)

RECURSIVE _get_schema_for_property(_, _), SearchBranches(_, _, _)

\* the inner loop `for subschema in schema.get(combiner, [])` from branch i on:
\* the first branch whose recursive result is not {}
SearchBranches(branches, attr, i) ==
    IF i > Len(branches) THEN [found |-> FALSE, schema |-> EmptySchema]
    ELSE LET subsubschema == _get_schema_for_property(branches[i], attr)
         IN  IF subsubschema # EmptySchema
             THEN [found |-> TRUE, schema |-> subsubschema]
             ELSE SearchBranches(branches, attr, i + 1)

\* a search that looks into the anyOf branches before the allOf branches
SearchAnyOfFirst(schema, attr) ==
    LET any == SearchBranches(schema.anyOf, attr, 1)
        all == SearchBranches(schema.allOf, attr, 1)
    IN  IF any.found THEN any.schema
        ELSE IF all.found THEN all.schema ELSE EmptySchema

\* the outer loop `for combiner in ['allOf', 'anyOf']`
SearchCombiners(schema, attr) ==
    LET all == SearchBranches(schema.allOf, attr, 1)
        any == SearchBranches(schema.anyOf, attr, 1)
    IN  IF all.found THEN all.schema
        ELSE IF any.found THEN any.schema ELSE EmptySchema

_get_schema_for_property(schema, attr) ==
    IF schema.hasProps /\ attr \in DOMAIN schema.props
    THEN schema.props[attr]
    ELSE SearchCombiners(schema, attr)

----------------------------------------------------------------------------
(* The check of a value against a fragment: stnode._check_value, which     *)
(* runs the asdf validator with the `type` callback replaced by            *)
(* validate._check_type.  The written values are scalars, so `properties`  *)
(* (which constrains objects only) never applies to them.                  *)

MaxErrorLen  == 2000
TruncatedLen == 1996

\* asdf_schema.validate_type
validate_type(types, instance) ==
    \/ types = "string" /\ instance.t = "str"
    \/ types = "number" /\ instance.t = "num"
    \/ types = "object" /\ instance.t = "dict"
    \/ types = "null"   /\ instance.t = "null"

\* a type callback that does not skip null
CheckTypeOfNull(types, instance) == validate_type(types, instance)

\* validate._check_type: TRUE when it reports no error
_check_type(types, instance) ==
    IF instance.t = "null" THEN TRUE ELSE validate_type(types, instance)

RECURSIVE Valid(_, _)
Valid(value, schema) ==
    /\ schema.type = "" \/ _check_type(schema.type, value)
    /\ ~schema.hasEnum \/ InList(value, schema.enum)
    /\ \A i \in 1..Len(schema.allOf) : Valid(value, schema.allOf[i])
    /\ Len(schema.anyOf) = 0 \/ \E i \in 1..Len(schema.anyOf) : Valid(value, schema.anyOf[i])

\* The validator that reports the failure (the head of the error's text).
FailingValidator(value, schema) ==
    IF ~(schema.type = "" \/ _check_type(schema.type, value)) THEN "type"
    ELSE IF ~(~schema.hasEnum \/ InList(value, schema.enum)) THEN "enum"
    ELSE IF \E i \in 1..Len(schema.allOf) : ~Valid(value, schema.allOf[i]) THEN "allOf"
    ELSE "anyOf"

\* stnode._check_value: elen is the length of the text jsonschema renders
\* for the error (the library's output; an input of the model).
_check_value(value, schema, elen) ==
    IF Valid(value, schema)
    THEN [ok |-> TRUE,  error |-> [validator |-> "", len |-> 0]]
    ELSE [ok |-> FALSE, error |-> [validator |-> FailingValidator(value, schema), len |-> elen]]

\* validate._check_value: the same validator over a schema holding `$schema` only
validate_check_value(value, elen) == _check_value(value, EmptySchema, elen)

NoMessage == [name |-> <<>>, validator |-> "", len |-> 0]

\* validate._error_message: path is a list of components or one string
\* (one component); the name is its components joined by dots, and an error
\* text longer than 2000 characters is cut to 1996 and " ..." appended.
_error_message(path, error) ==
    [name      |-> path,
     validator |-> error.validator,
     len       |-> IF error.len > MaxErrorLen THEN TruncatedLen + 4 ELSE error.len]

\* a policy in which pass-through is decided before the strict flag
PolicyPassFirst(check, errmsg, pass_invalid_values, strict) ==
    IF check.ok
    THEN [raised |-> FALSE, update |-> TRUE, warned |-> FALSE, msg |-> NoMessage]
    ELSE IF pass_invalid_values
         THEN [raised |-> FALSE, update |-> TRUE, warned |-> FALSE, msg |-> NoMessage]
         ELSE IF strict
              THEN [raised |-> TRUE, update |-> FALSE, warned |-> FALSE, msg |-> errmsg]
              ELSE [raised |-> FALSE, update |-> FALSE, warned |-> TRUE, msg |-> errmsg]

\* The part of _value_change / value_change after the check.
Policy(check, errmsg, pass_invalid_values, strict) ==
    IF check.ok
    THEN [raised |-> FALSE, update |-> TRUE, warned |-> FALSE, msg |-> NoMessage]
    ELSE LET update == IF pass_invalid_values THEN TRUE ELSE FALSE
         IN  IF strict
             THEN [raised |-> TRUE,  update |-> FALSE,  warned |-> FALSE, msg |-> errmsg]
             ELSE [raised |-> FALSE, update |-> update, warned |-> TRUE,  msg |-> errmsg]

\* stnode._value_change
_value_change(path, value, schema, pass_invalid_values, strict, elen) ==
    LET check == _check_value(value, schema, elen)
    IN  Policy(check, _error_message(path, check.error), pass_invalid_values, strict)

\* validate.value_change: the error itself is the message (no path)
value_change(value, pass_invalid_values, strict, elen) ==
    LET check == validate_check_value(value, elen)
    IN  Policy(check, [name |-> <<>>, validator |-> check.error.validator,
                       len |-> check.error.len],
               pass_invalid_values, strict)

\* yamlutil.custom_tree_to_tagged_tree on a scalar: a promoted scalar node
\* becomes the tagged form of the same text (cls is its tag), a plain
\* value is left as it is.
custom_tree_to_tagged_tree(instance) == instance

\* stnode._validate
_validate(attr, instance, schema, strict, elen) ==
    LET tagged_tree == custom_tree_to_tagged_tree(instance)
    IN  _value_change(<<attr>>, tagged_tree, schema, FALSE, strict, elen)

----------------------------------------------------------------------------
(* Tag registries and class synthesis.                                     *)
(* A tag uri <namespace>/tags/[reference_files/]<name>-<version> is the    *)
(* record of its parts; <name> is the sequence of its "_"-separated words. *)

TagUri(ref, name, ver) == [ref |-> ref, name |-> name, ver |-> ver]
NoTag == TagUri(FALSE, <<>>, "")

\* "_".join(words), for the names of the model
JoinUnderscore(words) ==
    IF Len(words) = 1 THEN words[1]
    ELSE IF words = <<"file", "date">> THEN "file_date"
    ELSE IF words = <<"wfi", "mode">> THEN "wfi_mode"
    ELSE IF words = <<"cal", "logs">> THEN "cal_logs"
    ELSE IF words = <<"tagged", "object", "node">> THEN "tagged_object_node"
    ELSE "?"

\* str.capitalize
capitalize(p) ==
    CASE p = "wfi" -> "Wfi" [] p = "mode" -> "Mode" [] p = "cal" -> "Cal"
      [] p = "logs" -> "Logs" [] p = "file" -> "File" [] p = "date" -> "Date"
      [] p = "origin" -> "Origin" [] p = "telescope" -> "Telescope"
      [] p = "tagged" -> "Tagged" [] p = "object" -> "Object" [] p = "node" -> "Node"
      [] p = "exposure" -> "Exposure" [] p = "dark" -> "Dark"
      [] OTHER -> p

\* stnode._scalar_tag_to_key: tag.split('/')[-1].split('-')[0]
_scalar_tag_to_key(tag) == JoinUnderscore(tag.name)

\* stnode._class_name_from_tag_uri; a class name is the sequence of the
\* capitalized words it concatenates
_class_name_from_tag_uri(tag_uri) ==
    LET class_name == [i \in 1..Len(tag_uri.name) |-> capitalize(tag_uri.name[i])]
    IN  IF tag_uri.ref THEN Append(class_name, "Ref") ELSE class_name

Put(f, k, v) == (k :> v) @@ f

BaseName(kind) ==
    CASE kind = "object" -> <<"Tagged", "Object", "Node">>
      [] kind = "list"   -> <<"Tagged", "List", "Node">>
      [] kind = "scalar" -> <<"Tagged", "Scalar", "Node">>

EmptyRegistries ==
    [obj |-> <<>>, list |-> <<>>, scalar |-> <<>>, byKey |-> <<>>,
     classes |-> <<>>, globals |-> <<>>, all |-> <<>>]

ByTag(R, kind) ==
    CASE kind = "object" -> R.obj [] kind = "list" -> R.list [] kind = "scalar" -> R.scalar

NoDoc == [set |-> FALSE, desc |-> "", tag |-> NoTag]

Class(name, tag, kind, base) ==
    [name |-> name, tag |-> tag, kind |-> kind, base |-> base, doc |-> NoDoc]

\* Tagged{Object,List,Scalar}NodeMeta.__init__ on a new class: whether it
\* raises RuntimeError ("has been defined twice")
MetaRaises(R, cls) ==
    cls.name # BaseName(cls.kind) /\ cls.tag \in DOMAIN ByTag(R, cls.kind)

\* the assignments to the registry of the class's kind
MetaRegisterNoCheckName(R, cls, id) ==
    CASE cls.kind = "object" -> [R EXCEPT !.obj = Put(@, cls.tag, id)]
      [] cls.kind = "list"   -> [R EXCEPT !.list = Put(@, cls.tag, id)]
      [] cls.kind = "scalar" -> [R EXCEPT !.scalar = Put(@, cls.tag, id),
                                          !.byKey = Put(@, _scalar_tag_to_key(cls.tag), id)]

\* the registration the metaclass does when it does not raise
MetaRegister(R, cls, id) ==
    IF cls.name = BaseName(cls.kind) THEN R
    ELSE MetaRegisterNoCheckName(R, cls, id)

\* A class statement or a type(...) call: the class object is created and
\* the metaclass __init__ runs; nothing is kept when it raises.
CreateClass(R, cls) ==
    IF MetaRaises(R, cls) THEN [raised |-> TRUE, R |-> R, id |-> 0]
    ELSE LET id == Len(R.classes) + 1
         IN  [raised |-> FALSE, id |-> id,
              R |-> MetaRegister([R EXCEPT !.classes = Append(@, cls)], cls, id)]

\* binding the class to its name in the module namespace
BindGlobal(R, cls, id) == [R EXCEPT !.globals = Put(@, cls.name, id)]

\* stnode._class_from_tag (the tag is in no registry when it is called)
ContainsTaggedScalar(schema_uri) ==
    \/ schema_uri.dir = "tagged_scalars"
    \/ /\ Len(schema_uri.name) >= 2
       /\ schema_uri.name[1] = "tagged"
       /\ schema_uri.name[2] \in {"scalar", "scalars"}

_class_from_tag(R, tag, docstring) ==
    LET class_name == _class_name_from_tag_uri(tag.tag_uri)
        cls == IF ContainsTaggedScalar(tag.schema_uri)
               THEN [Class(class_name, tag.tag_uri, "scalar", "str") EXCEPT !.doc = docstring]
               ELSE [Class(class_name, tag.tag_uri, "object", "") EXCEPT !.doc = docstring]
        made == CreateClass(R, cls)
    IN  IF made.raised THEN made
        ELSE [made EXCEPT !.R = [BindGlobal(made.R, cls, made.id)
                                    EXCEPT !.all = Append(@, class_name)]]

SetDoc(R, id, docstring) == [R EXCEPT !.classes[id].doc = docstring]

\* one iteration of the loop over _DATAMODELS_MANIFEST["tags"]
ManifestStep(R, tag) ==
    LET docstring == [set |-> TRUE, desc |-> tag.description, tag |-> tag.tag_uri]
        uri == tag.tag_uri
    IN  IF uri \in DOMAIN R.obj THEN [raised |-> FALSE, id |-> 0, R |-> SetDoc(R, R.obj[uri], docstring)]
        ELSE IF uri \in DOMAIN R.list THEN [raised |-> FALSE, id |-> 0, R |-> SetDoc(R, R.list[uri], docstring)]
        ELSE IF uri \in DOMAIN R.scalar THEN [raised |-> FALSE, id |-> 0, R |-> SetDoc(R, R.scalar[uri], docstring)]
        ELSE _class_from_tag(R, tag, docstring)

\* the class statements of the module, in order
Tag(name) == TagUri(FALSE, name, "1.0.0")

HandWritten ==
    << Class(<<"Tagged", "Object", "Node">>, NoTag, "object", ""),
       Class(<<"Tagged", "List", "Node">>, NoTag, "list", ""),
       Class(<<"Tagged", "Scalar", "Node">>, NoTag, "scalar", ""),
       Class(<<"Wfi", "Mode">>, Tag(<<"wfi", "mode">>), "object", ""),
       Class(<<"Cal", "Logs">>, Tag(<<"cal", "logs">>), "list", ""),
       Class(<<"File", "Date">>, Tag(<<"file", "date">>), "scalar", "Time") >>

ClassStatement(R, cls) ==
    LET made == CreateClass(R, cls)
    IN  IF made.raised THEN made ELSE [made EXCEPT !.R = BindGlobal(made.R, cls, made.id)]

RECURSIVE RunStatements(_, _), RunManifest(_, _, _)
RunStatements(R, i) ==
    IF i > Len(HandWritten) THEN R ELSE RunStatements(ClassStatement(R, HandWritten[i]).R, i + 1)

RunManifest(R, manifest, i) ==
    IF i > Len(manifest) THEN R ELSE RunManifest(ManifestStep(R, manifest[i]).R, manifest, i + 1)

\* the registries once the module is imported over a manifest
Imported(manifest) == RunManifest(RunStatements(EmptyRegistries, 1), manifest, 1)

ManifestTag(uri, dir, description) ==
    [tag_uri |-> uri, schema_uri |-> [dir |-> dir, name |-> uri.name], description |-> description]

\* the entries of the rad manifest the node model uses
RadManifest ==
    << ManifestTag(Tag(<<"file", "date">>), "tagged_scalars", "file date"),
       ManifestTag(Tag(<<"origin">>), "tagged_scalars", "origin"),
       ManifestTag(Tag(<<"telescope">>), "tagged_scalars", "telescope") >>

_OBJECT_NODE_CLASSES_BY_TAG == registries.obj
_LIST_NODE_CLASSES_BY_TAG   == registries.list
_SCALAR_NODE_CLASSES_BY_TAG == registries.scalar
_SCALAR_NODE_CLASSES_BY_KEY == registries.byKey

----------------------------------------------------------------------------
(* Nodes.  A node instance wraps a raw mapping of the heap; parent is the  *)
(* instance it was read from (0: None), name the key it was read under.    *)

MaxNodes == 2

Keys        == {"origin", "telescope", "file_date", "meta", "a", "b", "_note"}
WriteKeys   == {"origin", "telescope", "file_date", "a", "b"}
Values      == {VStr("STSCI"), VStr("ESA"), VNull}
PrivValues  == {VStr("STSCI")}
ErrLens     == {80}

\* key[0] == '_' / key.startswith('_')
IsPrivate(key) == key \in {"_note"}

\* the identities a `{}` or `[]` display may be allocated at
ObjIds == {"e1", "e2", "e3", "e4", "e5"}

\* a default argument evaluated once: every call gets the same object
SharedEmpty(h) == "e1"

\* `{}` / `[]`: a new object, distinct from every live one
Fresh(h) == CHOOSE id \in ObjIds : id \notin DOMAIN h

\* a wrapper over a copy of the mapping it is given
WrapCopy(h, node) ==
    LET id == Fresh(h) IN [heap |-> (id :> h[node.v]) @@ h, data |-> id]

\* DNode.__init__, line 131: `self.__dict__['_data'] = node` keeps the
\* dict it is given, by identity
Wrap(h, node) == [heap |-> h, data |-> node.v]

Node(data, parent, name, tagged) ==
    [data |-> data, parent |-> parent, name |-> name, tagged |-> tagged,
     cached |-> FALSE, x_schema |-> EmptySchema, priv |-> NoValue]

\* DNode._convert_to_scalar: the class of the by-key table applied to the
\* value; str(value) for a (str, TaggedScalarNode) class, Time(value) for
\* FileDate, which raises unless the value is a time.
_convert_to_scalar(key, value) ==
    IF key \in DOMAIN _SCALAR_NODE_CLASSES_BY_KEY
    THEN LET cls == registries.classes[_SCALAR_NODE_CLASSES_BY_KEY[key]]
         IN  IF cls.base = "Time"
             THEN IF value.t = "time"
                  THEN [ok |-> TRUE, value |-> Val(cls.name, "time", value.v)]
                  ELSE [ok |-> FALSE, value |-> value]
             ELSE [ok |-> TRUE, value |-> Val(cls.name, "str", StrOf(value))]
    ELSE [ok |-> TRUE, value |-> value]

\* TaggedObjectNode.get_schema: the schema registry's document for the tag
get_schema == tagSchema

\* DNode._schema / TaggedObjectNode._schema on instance n of ns: the
\* instances afterwards, whether the call returned, and what it returned
\* (DNode._schema returns None).
RECURSIVE _schema(_, _)
_schema(ns, n) ==
    IF ns[n].tagged
    THEN LET ns1 == IF ns[n].cached THEN ns
                    ELSE [ns EXCEPT ![n].cached = TRUE, ![n].x_schema = get_schema]
         IN  [ok |-> TRUE, nodes |-> ns1, none |-> FALSE, schema |-> ns1[n].x_schema]
    ELSE IF ns[n].cached
         THEN [ok |-> TRUE, nodes |-> ns, none |-> TRUE, schema |-> EmptySchema]
         ELSE IF ns[n].parent = 0
              THEN [ok |-> FALSE, nodes |-> ns, none |-> TRUE, schema |-> EmptySchema]
              ELSE LET parent == _schema(ns, ns[n].parent)
                   IN  IF ~parent.ok \/ parent.none
                       THEN [ok |-> FALSE, nodes |-> parent.nodes, none |-> TRUE,
                             schema |-> EmptySchema]
                       ELSE [ok |-> TRUE, none |-> TRUE, schema |-> EmptySchema,
                             nodes |-> [parent.nodes EXCEPT
                                 ![n].cached = TRUE,
                                 ![n].x_schema =
                                     _get_schema_for_property(parent.schema, ns[n].name)]]

\* The fragment __setattr__ validates key against (lines 188-203): none
\* stands for `schema is None`.  The outer loop runs over both combiners
\* (the `break` leaves the inner loop only), so an anyOf match replaces an
\* allOf match; a present `properties` block is the only place searched.
SetattrSchema(x_schema, key) ==
    IF ~x_schema.hasProps
    THEN LET all == SearchBranches(x_schema.allOf, key, 1)
             any == SearchBranches(x_schema.anyOf, key, 1)
         IN  IF any.found THEN [none |-> FALSE, schema |-> any.schema]
             ELSE IF all.found THEN [none |-> FALSE, schema |-> all.schema]
             ELSE [none |-> TRUE, schema |-> EmptySchema]
    ELSE IF key \in DOMAIN x_schema.props
         THEN [none |-> FALSE, schema |-> x_schema.props[key]]
         ELSE [none |-> TRUE, schema |-> EmptySchema]

\* a lookup that finds every key
HasKeyAlways(h, d, key) == TRUE

\* `key in self._data` (line 185)
HasKey(h, d, key) == key \in DOMAIN h[d]

\* a write path without the check of the fixed enumerations
EnumCheckSkipped(key, value) == ""

\* lines 180-183: which fixed enumeration the write violates ("": none)
EnumCheck(key, value) ==
    IF key = "origin" /\ ~InList(value, _VALID_ORIGIN) THEN "origin"
    ELSE IF key = "telescope" /\ ~InList(value, _VALID_TELESCOPE) THEN "telescope"
    ELSE ""

\* an assignment that is lost
StoreNothing(h, d, key, value) == h

\* an assignment that replaces the mapping by the one entry
StoreAlone(h, d, key, value) == [h EXCEPT ![d] = (key :> value)]

\* `self._data[key] = value`
Store(h, d, key, value) == [h EXCEPT ![d] = Put(@, key, value)]

\* lines 204-206: the assignment under the engine's verdict, then the
\* assignment that follows the `if validate:` block
Commit(h, d, key, value, accepted) ==
    LET line205 == IF accepted THEN Store(h, d, key, value) ELSE h
    IN  Store(line205, d, key, value)

NoWrite ==
    [op |-> "init", node |-> 0, key |-> "", value |-> NoValue, pre |-> NoValue,
     outcome |-> "", warned |-> FALSE, msg |-> NoMessage,
     resolved |-> FALSE, validated |-> FALSE, valid |-> TRUE, none |-> TRUE,
     schema |-> EmptySchema, lookup |-> FALSE,
     result |-> NoValue, child |-> 0]

\* DNode.__setattr__(key, value) on instance n
__setattr__(n, key, value, elen) ==
    LET d    == nodes[n].data
        pre  == IF key \in DOMAIN heap[d] THEN heap[d][key] ELSE NoValue
        enum == EnumCheck(key, value)
        call == [NoWrite EXCEPT !.op = "write", !.node = n, !.key = key,
                                !.value = value, !.pre = pre]
        raise(ns, e, m) == [heap |-> heap, nodes |-> ns,
                            last |-> [call EXCEPT !.outcome = e, !.msg = m]]
    IN  IF IsPrivate(key)
        THEN [heap |-> heap, nodes |-> [nodes EXCEPT ![n].priv = value],
              last |-> [call EXCEPT !.outcome = "ok"]]
        ELSE IF enum # ""
        THEN raise(nodes, "ValidationError", [NoMessage EXCEPT !.validator = enum])
        ELSE LET conv == _convert_to_scalar(key, value)
             IN  IF ~conv.ok THEN raise(nodes, "ValueError", NoMessage)
                 ELSE IF ~HasKey(heap, d, key)
                 THEN raise(nodes, "AttributeError", NoMessage)
                 ELSE IF ~validate
                 THEN [heap |-> Store(heap, d, key, conv.value), nodes |-> nodes,
                       last |-> [call EXCEPT !.outcome = "ok"]]
                 ELSE LET own == _schema(nodes, n)
                          ask == [call EXCEPT !.lookup = ~nodes[n].cached]
                      IN  IF ~own.ok
                          THEN [heap |-> heap, nodes |-> own.nodes,
                                last |-> [ask EXCEPT !.outcome = "AttributeError"]]
                          ELSE LET found == SetattrSchema(own.nodes[n].x_schema, key)
                                   seen  == [ask EXCEPT !.resolved = TRUE,
                                                         !.none = found.none,
                                                         !.schema = found.schema]
                               IN  IF found.none
                                   THEN [heap |-> Commit(heap, d, key, conv.value, TRUE),
                                         nodes |-> own.nodes,
                                         last |-> [seen EXCEPT !.outcome = "ok"]]
                                   ELSE LET r == _validate(key, conv.value, found.schema,
                                                           strict_validation, elen)
                                            ran == [seen EXCEPT !.validated = TRUE,
                                                     !.valid = Valid(conv.value, found.schema),
                                                     !.msg = r.msg, !.warned = r.warned]
                                        IN  IF r.raised
                                            THEN [heap |-> heap, nodes |-> own.nodes,
                                                  last |-> [ran EXCEPT !.outcome = "ValidationError"]]
                                            ELSE [heap |-> Commit(heap, d, key, conv.value, r.update),
                                                  nodes |-> own.nodes,
                                                  last |-> [ran EXCEPT !.outcome = "ok"]]

\* a read that writes the promoted value back into the mapping
ReadStoresPromoted(h, d, key, value) == Store(h, d, key, value)

\* lines 165-171: the promoted value is bound to the local `value` and
\* returned; self._data is not assigned
ReadValue(h, d, key, value) == h

\* DNode.__getattr__(key) on instance n
__getattr__(n, key) ==
    LET d    == nodes[n].data
        call == [NoWrite EXCEPT !.op = "read", !.node = n, !.key = key,
                     !.pre = IF key \in DOMAIN heap[d] THEN heap[d][key] ELSE NoValue]
        raise(e) == [heap |-> heap, nodes |-> nodes, last |-> [call EXCEPT !.outcome = e]]
    IN  IF IsPrivate(key)
        THEN IF nodes[n].priv # NoValue
             THEN [heap |-> heap, nodes |-> nodes,
                   last |-> [call EXCEPT !.outcome = "ok", !.result = nodes[n].priv]]
             ELSE raise("AttributeError")
        ELSE IF HasKey(heap, d, key)
        THEN LET conv == _convert_to_scalar(key, heap[d][key])
             IN  IF ~conv.ok
                 THEN raise("ValueError")
                 ELSE IF conv.value.t = "dict"
                 THEN LET child == Wrap(ReadValue(heap, d, key, conv.value), conv.value)
                      IN  [heap |-> child.heap,
                           nodes |-> Append(nodes, Node(child.data, n, key, FALSE)),
                           last |-> [call EXCEPT !.outcome = "ok", !.result = conv.value,
                                                 !.child = Len(nodes) + 1]]
                 ELSE [heap |-> ReadValue(heap, d, key, conv.value), nodes |-> nodes,
                       last |-> [call EXCEPT !.outcome = "ok", !.result = conv.value]]
        ELSE raise("AttributeError")

----------------------------------------------------------------------------
(* The schema documents the root's tag may resolve to.                     *)

SubSchema == Props("a" :> FStr)
MetaDirect     == Props(("a" :> FEnum) @@ ("sub" :> SubSchema))
MetaConflict   == Comb(FALSE, <<>>, <<Props("a" :> FStr)>>, <<Props("a" :> FNum)>>)
MetaPropsOther == Comb(TRUE, ("sub" :> SubSchema), <<Props("a" :> FStr)>>, <<>>)

RootDirect(m, o) ==
    Props(("meta" :> m) @@ ("origin" :> o) @@ ("telescope" :> FStr)
          @@ ("file_date" :> EmptySchema))
RootAllOf(m, o) == AllOf(<<Props("origin" :> o), Props("meta" :> m)>>)

TagSchemas ==
    {RootDirect(MetaDirect, FEnum), RootDirect(MetaConflict, FNum),
     RootAllOf(MetaPropsOther, FEnum)}

InitHeap ==
    ("d0" :> (("origin" :> VStr("STSCI")) @@ ("telescope" :> VStr("ROMAN"))
              @@ ("file_date" :> VTime("2020-01-01")) @@ ("meta" :> VDict("d1"))))
    @@ ("d1" :> ("a" :> VStr("STSCI")))

\* the four tables of the registries
Tables(R) == [obj |-> R.obj, list |-> R.list, scalar |-> R.scalar, byKey |-> R.byKey]

NoClass == Class(<<>>, NoTag, "", "")
ImpIdle == [pc |-> "idle", i |-> 0, manifest |-> <<>>, defs |-> 0, op |-> "",
            raised |-> FALSE, cls |-> NoClass, before |-> Tables(EmptyRegistries)]
RsIdle  == [schema |-> EmptySchema, attr |-> "", found |-> EmptySchema, depth |-> 0]
\* no call of flattening, construction or open yet
NoCall  == [fn |-> ""]
EngIdle == [fn |-> "", path |-> <<>>, value |-> NoValue, schema |-> EmptySchema,
            pass |-> FALSE, strict |-> FALSE, elen |-> 0, valid |-> TRUE,
            raised |-> FALSE, update |-> FALSE, warned |-> FALSE, msg |-> NoMessage]

----------------------------------------------------------------------------
(* Spec: attribute reads and writes on the tree of a tagged root.          *)

Init ==
    /\ validate = TRUE
    /\ strict_validation = TRUE
    /\ registries = Imported(RadManifest)
    /\ imp = ImpIdle
    /\ tagSchema \in TagSchemas
    /\ heap = InitHeap
    /\ nodes = <<Node("d0", 0, "", TRUE)>>
    /\ last = NoWrite
    /\ rs = RsIdle
    /\ eng = EngIdle
    /\ flat = NoCall /\ ctor = NoCall /\ opn = NoCall

\* stnode.set_validate(value)
set_validate(value) ==
    /\ validate' = value
    /\ last' = [NoWrite EXCEPT !.op = "set_validate"]
    /\ UNCHANGED <<strict_validation, registries, imp, tagSchema, heap, nodes, rs, eng, calls>>

\* the configuration collaborator assigning stnode.strict_validation
set_strict_validation(value) ==
    /\ strict_validation' = value
    /\ last' = [NoWrite EXCEPT !.op = "set_strict_validation"]
    /\ UNCHANGED <<validate, registries, imp, tagSchema, heap, nodes, rs, eng, calls>>

Write(n, key, value, elen) ==
    LET done == __setattr__(n, key, value, elen)
    IN  /\ heap' = done.heap
        /\ nodes' = done.nodes
        /\ last' = done.last
        /\ UNCHANGED <<validate, strict_validation, registries, imp, tagSchema, rs, eng, calls>>

Read(n, key) ==
    LET done == __getattr__(n, key)
    IN  /\ Len(done.nodes) <= MaxNodes
        /\ heap' = done.heap
        /\ nodes' = done.nodes
        /\ last' = done.last
        /\ UNCHANGED <<validate, strict_validation, registries, imp, tagSchema, rs, eng, calls>>

SetValidate == \E b \in BOOLEAN : set_validate(b)
SetStrict   == \E b \in BOOLEAN : set_strict_validation(b)
WriteAttr   == \E n \in 1..Len(nodes), key \in WriteKeys, elen \in ErrLens :
                  \E value \in (IF IsPrivate(key) THEN PrivValues ELSE Values) :
                      Write(n, key, value, elen)
ReadAttr    == \E n \in 1..Len(nodes), key \in Keys : Read(n, key)

Next == SetValidate \/ SetStrict \/ WriteAttr \/ ReadAttr

Spec == Init /\ [][Next]_vars

----------------------------------------------------------------------------
(* Claims about attribute writes (Spec).                                   *)

\* the write the last step made, and the mapping it addressed
Wrote         == last.op = "write" /\ ~IsPrivate(last.key)
WroteExisting == Wrote /\ last.pre # NoValue
WroteAbsent   == Wrote /\ last.pre = NoValue
LastData      == heap[nodes[last.node].data]
Stored        == IF last.key \in DOMAIN LastData THEN LastData[last.key] ELSE NoValue
Promoted      == _convert_to_scalar(last.key, last.value)
\* python's ==, which does not tell a str from an instance of a str subclass
PyEq(a, b) == a.t = b.t /\ a.v = b.v

\* the written value is not one the key's enumeration lists
OutsideEnumeration ==
    \/ last.key = "origin" /\ ~InList(last.value, _VALID_ORIGIN)
    \/ last.key = "telescope" /\ ~InList(last.value, _VALID_TELESCOPE)
\* the engine ran on the written value and its check failed
Rejected      == WroteExisting /\ last.validated /\ ~last.valid

\* The lookup order direct `properties` entry, allOf branches, anyOf
\* branches, the first match winning; none when nothing is found.
FirstMatchSchema(x_schema, key) ==
    LET found == _get_schema_for_property(x_schema, key)
    IN  IF x_schema.hasProps /\ key \in DOMAIN x_schema.props
        THEN [none |-> FALSE, schema |-> found]
        ELSE [none |-> found = EmptySchema, schema |-> found]

\* the keys from the root to instance n, and the dotted path of the
\* attribute the last write addressed
RECURSIVE NodePath(_)
NodePath(n) == IF nodes[n].parent = 0 THEN <<>>
               ELSE Append(NodePath(nodes[n].parent), nodes[n].name)
AttributePath == Append(NodePath(last.node), last.key)

\* C1: with validation enabled and strict mode off, a write to an existing
\* key whose value violates the resolved fragment leaves the prior value in
\* the raw mapping, emits a ValidationWarning and does not raise.
C1_WarnedWriteKeepsPrior ==
    (Rejected /\ validate /\ ~strict_validation)
        => /\ PyEq(Stored, last.pre)
           /\ last.warned
           /\ last.outcome = "ok"

\* C2: with validation enabled and strict mode on, a write to an existing
\* key whose value violates the resolved fragment leaves the prior value and
\* raises a validation error whose message names the dotted path of the
\* attribute from the root.
C2_StrictErrorNamesPath ==
    (Rejected /\ validate /\ strict_validation)
        => /\ PyEq(Stored, last.pre)
           /\ last.outcome = "ValidationError"
           /\ last.msg.name = AttributePath

\* C3 as stated: every write to an absent key fails with AttributeError
\* and the key stays absent.
C3_AbsentAlwaysAttributeError ==
    WroteAbsent => (last.outcome = "AttributeError" /\ Stored = NoValue)

\* C3 as amended: every write to an absent key fails and the key stays
\* absent, under either setting of the validation flags; the error is
\* AttributeError unless the write violates the origin / telescope
\* enumeration (ValidationError) or the key's scalar class cannot convert
\* the value (the conversion's error), which are raised first.
C3_AbsentWriteFails ==
    WroteAbsent
        => /\ Stored = NoValue
           /\ last.outcome =
                 IF OutsideEnumeration THEN "ValidationError"
                 ELSE IF ~Promoted.ok THEN "ValueError"
                 ELSE "AttributeError"

C3_Witness ==
    /\ WroteAbsent /\ last.key = "b" /\ last.outcome = "AttributeError"
    /\ ~validate /\ nodes[last.node].parent # 0

\* what a read of the written key returns in the current state
ReadBack == __getattr__(last.node, last.key).last.result

\* C4 as stated: with validation disabled every write to an existing key
\* succeeds and a subsequent read returns the written value.
C4_UnvalidatedAlwaysSucceeds ==
    (WroteExisting /\ ~validate)
        => (last.outcome = "ok" /\ PyEq(ReadBack, last.value))

\* C4 as amended: with validation disabled a write to an existing key
\* raises only for an origin / telescope value outside its enumeration
\* (ValidationError) or a value the key's scalar class cannot convert
\* (the conversion's error), and then leaves the key as it was; every other
\* write succeeds whatever the schema says of the value, and a subsequent
\* read returns the written value as promoted by the scalar-key table
\* (equal to the written value when that is a string).
C4_UnvalidatedWrite ==
    (WroteExisting /\ ~validate)
        => IF OutsideEnumeration
           THEN last.outcome = "ValidationError" /\ Stored = last.pre
           ELSE IF ~Promoted.ok
           THEN last.outcome = "ValueError" /\ Stored = last.pre
           ELSE /\ last.outcome = "ok"
                /\ Stored = Promoted.value
                /\ ReadBack = Promoted.value
                /\ last.value.t = "str" => PyEq(ReadBack, last.value)

C4_Witness ==
    /\ WroteExisting /\ ~validate /\ last.outcome = "ok"
    /\ last.key = "a" /\ last.value = VStr("ESA")
    /\ ~Valid(last.value, FirstMatchSchema(
           _get_schema_for_property(tagSchema, "meta"), "a").schema)
    /\ ReadBack = VStr("ESA")

\* C5 as stated: an origin / telescope value outside the enumeration is
\* always refused with a validation error and the stored value kept;
\* origin = "STSCI" on a node that has the key always succeeds and commits.
C5_ValidOriginAlwaysCommits ==
    /\ (Wrote /\ OutsideEnumeration)
           => (last.outcome = "ValidationError" /\ Stored = last.pre)
    /\ (WroteExisting /\ last.key = "origin" /\ last.value = VStr("STSCI"))
           => (last.outcome = "ok" /\ Stored = Promoted.value)

\* C5 as amended: the first half as stated, under every setting of the
\* flags; origin = "STSCI" on a node that has the key succeeds and commits
\* whenever validation is disabled or the fragment resolved for origin
\* accepts the value (or none is found); with validation enabled, strict
\* mode on and a fragment that rejects it, the write raises a validation
\* error and the stored value is kept.
C5_EnumerationWrites ==
    /\ (Wrote /\ OutsideEnumeration)
           => (last.outcome = "ValidationError" /\ Stored = last.pre)
    /\ (/\ WroteExisting /\ last.key = "origin" /\ last.value = VStr("STSCI")
        /\ (~validate \/ (last.resolved /\ (last.none \/ last.valid))))
           => (last.outcome = "ok" /\ Stored = Promoted.value)
    /\ (/\ WroteExisting /\ last.key = "origin" /\ last.value = VStr("STSCI")
        /\ Rejected /\ validate /\ strict_validation)
           => (last.outcome = "ValidationError" /\ Stored = last.pre)

C5_Witness ==
    /\ WroteExisting /\ last.key = "origin" /\ last.value = VStr("ESA")
    /\ ~validate /\ last.outcome = "ValidationError"
    /\ Stored = VStr("STSCI")

\* C6: on a validated write to an existing key the value is checked
\* against the first match of: the direct `properties` entry, the allOf
\* branches in order, the anyOf branches in order; the write is
\* unconstrained only when none of them has the key.
C6_FragmentIsFirstMatch ==
    (WroteExisting /\ validate /\ last.resolved)
        => [none |-> last.none, schema |-> last.schema]
               = FirstMatchSchema(nodes[last.node].x_schema, last.key)

\* C12: a single attribute write to key k of a node, whether it commits,
\* raises or degrades to a warning, leaves every other key of the node's
\* raw mapping (and every other mapping) as it was: none added, removed or
\* changed.
C12_WriteLeavesOtherKeys ==
    [][last'.op = "write" =>
          \A d \in DOMAIN heap :
              /\ d \in DOMAIN heap'
              /\ \A key \in (DOMAIN heap[d] \cup DOMAIN heap'[d])
                           \ (IF d = nodes'[last'.node].data THEN {last'.key} ELSE {}) :
                     /\ key \in DOMAIN heap[d] /\ key \in DOMAIN heap'[d]
                     /\ heap'[d][key] = heap[d][key]]_vars

\* a warned write on the root's mapping, which holds other keys
C12_Witness ==
    /\ Wrote /\ last.warned /\ last.node = 1
    /\ Cardinality(DOMAIN LastData) > 1
    /\ Stored # last.pre

\* the fragment constrains a scalar by its type at most
TypeOnly(schema) == ~schema.hasEnum /\ schema.allOf = <<>> /\ schema.anyOf = <<>>

\* a validated write of null that reaches the engine or finds no fragment
WroteNull ==
    /\ WroteExisting /\ validate /\ last.value = VNull
    /\ ~OutsideEnumeration /\ Promoted.ok /\ last.resolved

\* C13 as stated: with validation enabled, writing null to an existing key
\* always commits without raising or warning, whatever the fragment holds.
C13_NullAlwaysCommits ==
    (WroteExisting /\ validate /\ last.value = VNull)
        => (last.outcome = "ok" /\ ~last.warned /\ Stored = VNull)

\* C13 as amended: null never fails a `type` constraint.  With validation
\* enabled, writing null to an existing key whose resolved fragment
\* constrains the type at most (or is not found) commits without raising or
\* warning; a fragment whose enum does not list null rejects it (a
\* ValidationError in strict mode, a warning otherwise).  The fixed
\* enumerations of origin / telescope and the conversion of a scalar-class
\* key are checked before the engine and are not covered.
C13_NullPassesTypeChecks ==
    WroteNull
        => IF last.none \/ TypeOnly(last.schema)
           THEN last.outcome = "ok" /\ ~last.warned /\ Stored = VNull
           ELSE /\ last.validated /\ ~last.valid /\ last.msg.validator = "enum"
                /\ strict_validation => last.outcome = "ValidationError"
                /\ ~strict_validation => last.warned

C13_Witness ==
    /\ WroteNull /\ last.validated /\ last.schema = FNum
    /\ last.outcome = "ok" /\ Stored = VNull

\* C14: a read never changes a raw mapping, whether it returns a plain
\* value, a promoted scalar or a child node, or fails; and a read of a
\* non-private key absent from the node's mapping fails with
\* AttributeError, returning no value and creating no node.
C14_ReadLeavesMapping ==
    [][last'.op = "read" =>
          /\ heap' = heap
          /\ (~IsPrivate(last'.key)
                 /\ last'.key \notin DOMAIN heap[nodes[last'.node].data])
              => /\ last'.outcome = "AttributeError"
                 /\ last'.result = NoValue
                 /\ last'.child = 0
                 /\ nodes' = nodes]_vars

\* a read returned the promoted scalar of a plain stored string
C14_Witness ==
    /\ last.op = "read" /\ last.key = "origin" /\ last.outcome = "ok"
    /\ last.result = Val(<<"Origin">>, "str", "STSCI")
    /\ heap[nodes[last.node].data]["origin"] = VStr("STSCI")

----------------------------------------------------------------------------
(* SpecResolve: _get_schema_for_property applied to schema documents built *)
(* level by level.  A document starts as a leaf and is wrapped, MaxDepth   *)
(* times at most, in a combiner level that places it among the allOf or    *)
(* anyOf branches, next to a sibling branch or below a `properties` block. *)

MaxDepth == 3

Attrs == {"a", "b"}

Leaves == {Props("a" :> FStr), Props("a" :> EmptySchema), Props("b" :> FEnum),
           EmptySchema}

Siblings == {Props("a" :> FNum), Props("a" :> EmptySchema), Props("b" :> FStr)}

Wrappers(cur) ==
    {AllOf(<<cur>>), Comb(TRUE, ("b" :> FNum), <<>>, <<cur>>)}
    \cup {Comb(FALSE, <<>>, <<sib, cur>>, <<>>) : sib \in Siblings}
    \cup {Comb(FALSE, <<>>, <<cur>>, <<sib>>) : sib \in Siblings}
    \cup {Comb(FALSE, <<>>, <<sib>>, <<cur>>) : sib \in Siblings}
    \cup {Comb(FALSE, <<>>, <<>>, <<cur, sib>>) : sib \in Siblings}

Resolved(schema, attr, depth) ==
    [schema |-> schema, attr |-> attr,
     found |-> _get_schema_for_property(schema, attr), depth |-> depth]

InitResolve ==
    /\ validate = TRUE
    /\ strict_validation = TRUE
    /\ registries = EmptyRegistries
    /\ imp = ImpIdle
    /\ tagSchema = EmptySchema
    /\ heap = <<>>
    /\ nodes = <<>>
    /\ last = NoWrite
    /\ \E schema \in Leaves, attr \in Attrs : rs = Resolved(schema, attr, 0)
    /\ eng = EngIdle
    /\ flat = NoCall /\ ctor = NoCall /\ opn = NoCall

\* the search of a document one level larger
WrapSchema ==
    /\ rs.depth < MaxDepth
    /\ \E schema \in Wrappers(rs.schema) :
           rs' = Resolved(schema, rs.attr, rs.depth + 1)
    /\ UNCHANGED <<validate, strict_validation, registries, imp, tagSchema,
                   heap, nodes, last, eng, calls>>

\* the search of the same document for another property name
Lookup ==
    /\ \E attr \in Attrs \ {rs.attr} : rs' = Resolved(rs.schema, attr, rs.depth)
    /\ UNCHANGED <<validate, strict_validation, registries, imp, tagSchema,
                   heap, nodes, last, eng, calls>>

NextResolve == WrapSchema \/ Lookup

SpecResolve == InitResolve /\ [][NextResolve]_vars

----------------------------------------------------------------------------
(* Claims about the subschema search (SpecResolve).                        *)

\* A position in a document: the steps <<combiner, index>> from the root,
\* combiner 1 for allOf and 2 for anyOf.
Branches(schema, c) == IF c = 1 THEN schema.allOf ELSE schema.anyOf

RECURSIVE Positions(_)
Positions(schema) ==
    {<<>>} \cup UNION {UNION {{<<<<c, i>>>> \o q :
                                 q \in Positions(Branches(schema, c)[i])} :
                              i \in 1..Len(Branches(schema, c))} : c \in {1, 2}}

RECURSIVE At(_, _)
At(schema, p) ==
    IF p = <<>> THEN schema
    ELSE At(Branches(schema, p[1][1])[p[1][2]], Tail(p))

HasDirect(schema, attr) == schema.hasProps /\ attr \in DOMAIN schema.props

\* document order: allOf before anyOf, branches by index, level by level
RECURSIVE Before(_, _)
Before(p, q) ==
    /\ p # <<>> /\ q # <<>>
    /\ \/ p[1][1] < q[1][1]
       \/ p[1][1] = q[1][1] /\ p[1][2] < q[1][2]
       \/ p[1] = q[1] /\ Before(Tail(p), Tail(q))

\* the positions whose direct entry the search can return: the entry exists,
\* no position above it has one, and it is not {} unless it is the root's
Matches(schema, attr) ==
    {p \in Positions(schema) :
        /\ HasDirect(At(schema, p), attr)
        /\ \A k \in 0..(Len(p) - 1) : ~HasDirect(At(schema, SubSeq(p, 1, k)), attr)
        /\ p = <<>> \/ At(schema, p).props[attr] # EmptySchema}

FirstMatch(schema, attr) ==
    LET M == Matches(schema, attr)
    IN  IF M = {} THEN EmptySchema
        ELSE LET p == CHOOSE p \in M : \A q \in M : q = p \/ Before(p, q)
             IN  At(schema, p).props[attr]

\* C7: the search returns the direct `properties` entry if present;
\* otherwise the first non-empty result of the allOf branches in order and
\* then the anyOf branches in order, searched recursively (an allOf match
\* wins over an anyOf match, at any depth); and the empty fragment when no
\* branch contains the property.
C7_SearchReturnsFirstMatch ==
    /\ HasDirect(rs.schema, rs.attr) => rs.found = rs.schema.props[rs.attr]
    /\ rs.found = FirstMatch(rs.schema, rs.attr)
    /\ Matches(rs.schema, rs.attr) = {} => rs.found = EmptySchema

\* a property three levels inside allOf branches, with an anyOf branch of
\* the document matching the same name
C7_Witness ==
    /\ rs.depth = 3 /\ rs.attr = "a"
    /\ Len(rs.schema.allOf) = 1 /\ Len(rs.schema.anyOf) = 1
    /\ HasDirect(rs.schema.anyOf[1], "a")
    /\ rs.schema.anyOf[1].props["a"] = FNum
    /\ <<<<1, 1>>, <<1, 1>>, <<1, 1>>>> \in Matches(rs.schema, "a")
    /\ rs.found = FStr

----------------------------------------------------------------------------
(* SpecEngine: calls of the validation engine, stnode._value_change and    *)
(* validate.value_change, over values, fragments, both flags, attribute    *)
(* paths and lengths of the rendered error.                                *)

EngineValues  == {VStr("STSCI"), VStr("ESA"), VNum("5"), VNull}
EngineSchemas == {EmptySchema, FStr, FNum, FEnum}
EnginePaths   == {<<"a">>, <<"meta", "a">>}
EngineErrLens == {80, MaxErrorLen, MaxErrorLen + 400}

InitEngine ==
    /\ validate = TRUE
    /\ strict_validation = TRUE
    /\ registries = EmptyRegistries
    /\ imp = ImpIdle
    /\ tagSchema = EmptySchema
    /\ heap = <<>>
    /\ nodes = <<>>
    /\ last = NoWrite
    /\ rs = RsIdle
    /\ eng = EngIdle
    /\ flat = NoCall /\ ctor = NoCall /\ opn = NoCall

\* the record of a call: its arguments, the result of the check and what
\* the engine did
Outcome(fn, path, value, schema, pass, strict, elen, valid, out) ==
    [fn |-> fn, path |-> path, value |-> value, schema |-> schema,
     pass |-> pass, strict |-> strict, elen |-> elen, valid |-> valid,
     raised |-> out.raised, update |-> out.update,
     warned |-> out.warned, msg |-> out.msg]

\* a call of stnode._value_change
StnodeValueChange ==
    /\ \E path \in EnginePaths, value \in EngineValues, schema \in EngineSchemas,
          pass \in BOOLEAN, strict \in BOOLEAN, elen \in EngineErrLens :
           eng' = Outcome("_value_change", path, value, schema, pass, strict, elen,
                          _check_value(value, schema, elen).ok,
                          _value_change(path, value, schema, pass, strict, elen))
    /\ UNCHANGED <<validate, strict_validation, registries, imp, tagSchema,
                   heap, nodes, last, rs, calls>>

\* a call of validate.value_change
ValidateValueChange ==
    /\ \E value \in EngineValues, pass \in BOOLEAN, strict \in BOOLEAN,
          elen \in EngineErrLens :
           eng' = Outcome("value_change", <<>>, value, EmptySchema, pass, strict, elen,
                          validate_check_value(value, elen).ok,
                          value_change(value, pass, strict, elen))
    /\ UNCHANGED <<validate, strict_validation, registries, imp, tagSchema,
                   heap, nodes, last, rs, calls>>

NextEngine == StnodeValueChange \/ ValidateValueChange

SpecEngine == InitEngine /\ [][NextEngine]_vars

----------------------------------------------------------------------------
(* Claims about the validation engine (SpecEngine).                        *)

Called      == eng.fn # ""
CheckFailed == Called /\ ~Valid(eng.value, eng.schema)
Accepted    == ~eng.raised /\ eng.update
Refused     == ~eng.raised /\ ~eng.update

\* C8 as stated: a successful check returns accept; a failed check returns
\* accept without raising under pass-through, whatever the strict flag is,
\* raises under strict-fail, and under warn emits a warning and returns
\* reject.
C8_PassThroughNeverRaises ==
    /\ (Called /\ ~CheckFailed) => Accepted
    /\ (CheckFailed /\ eng.pass) => Accepted
    /\ (CheckFailed /\ ~eng.pass /\ eng.strict) => eng.raised
    /\ (CheckFailed /\ ~eng.pass /\ ~eng.strict) => (Refused /\ eng.warned)

\* C8 as amended: a successful check returns accept, silently; a failed
\* check raises a validation error whenever the strict flag is set, whatever
\* the pass-through flag is; with the strict flag clear it emits a
\* ValidationWarning and returns accept under pass-through and reject
\* otherwise.
C8_StrictRaisesFirst ==
    /\ (Called /\ ~CheckFailed) => (Accepted /\ ~eng.warned)
    /\ (CheckFailed /\ eng.strict) => (eng.raised /\ ~eng.warned)
    /\ (CheckFailed /\ ~eng.strict /\ eng.pass) => (Accepted /\ eng.warned)
    /\ (CheckFailed /\ ~eng.strict /\ ~eng.pass) => (Refused /\ eng.warned)

C8_Witness ==
    /\ CheckFailed /\ eng.pass /\ eng.strict /\ eng.raised
    /\ eng.value = VStr("ESA") /\ eng.schema = FEnum

----------------------------------------------------------------------------
(* SpecReg: the import of stnode over a manifest (the class statements,    *)
(* then the loop over the manifest's tags), followed by class definitions  *)
(* made by code that has imported the module.  imp.op, imp.cls, imp.raised *)
(* and imp.before record the last step: what ran, the class it defined,    *)
(* whether the definition raised, and the tables before it.                *)

MaxManifest == 2
MaxUserDefs == 1

OriginTag(ver) == TagUri(FALSE, <<"origin">>, ver)

ManifestTags ==
    {ManifestTag(Tag(<<"wfi", "mode">>), "", "wfi mode"),
     ManifestTag(Tag(<<"file", "date">>), "tagged_scalars", "file date"),
     ManifestTag(OriginTag("1.0.0"), "tagged_scalars", "origin"),
     ManifestTag(OriginTag("1.1.0"), "tagged_scalars", "origin"),
     ManifestTag(Tag(<<"tagged", "object", "node">>), "", ""),
     ManifestTag(TagUri(TRUE, <<"dark">>, "1.0.0"), "", "dark")}

Manifests == UNION {[1..n -> ManifestTags] : n \in 0..MaxManifest}

\* class statements of importing code
UserClasses ==
    {Class(<<"Other">>, Tag(<<"wfi", "mode">>), "object", ""),
     Class(<<"Other">>, Tag(<<"wfi", "mode">>), "list", ""),
     Class(<<"Other">>, Tag(<<"cal", "logs">>), "list", ""),
     Class(<<"Other">>, OriginTag("1.0.0"), "scalar", "str"),
     Class(<<"Tagged", "Object", "Node">>, Tag(<<"wfi", "mode">>), "object", ""),
     Class(<<"Exposure">>, Tag(<<"exposure">>), "object", "")}

InitReg ==
    /\ validate = TRUE
    /\ strict_validation = TRUE
    /\ registries = EmptyRegistries
    /\ \E manifest \in Manifests :
           imp = [ImpIdle EXCEPT !.pc = "hand", !.i = 1, !.manifest = manifest]
    /\ tagSchema = EmptySchema
    /\ heap = <<>>
    /\ nodes = <<>>
    /\ last = NoWrite
    /\ rs = RsIdle
    /\ eng = EngIdle
    /\ flat = NoCall /\ ctor = NoCall /\ opn = NoCall

Step(pc, i, op, cls, made) ==
    /\ registries' = made.R
    /\ imp' = [imp EXCEPT !.pc = pc, !.i = i, !.op = op, !.cls = cls,
                          !.raised = made.raised, !.before = Tables(registries)]
    /\ UNCHANGED <<validate, strict_validation, tagSchema, heap, nodes, last, rs, eng, calls>>

\* the next class statement of the module
HandStatement ==
    /\ imp.pc = "hand"
    /\ LET cls == HandWritten[imp.i]
       IN  Step(IF imp.i = Len(HandWritten) THEN "manifest" ELSE "hand",
                IF imp.i = Len(HandWritten) THEN 1 ELSE imp.i + 1,
                "class", cls, ClassStatement(registries, cls))

\* the end of the loop over the manifest's tags
EndOfManifest ==
    /\ imp.pc = "manifest" /\ imp.i > Len(imp.manifest)
    /\ imp' = [imp EXCEPT !.pc = "done", !.op = "NODE_CLASSES", !.cls = NoClass,
                          !.raised = FALSE, !.before = Tables(registries)]
    /\ UNCHANGED <<validate, strict_validation, registries, tagSchema, heap,
                   nodes, last, rs, eng, calls>>

\* one iteration of the loop over the manifest's tags
SynthesizeTag ==
    /\ imp.pc = "manifest" /\ imp.i <= Len(imp.manifest)
    /\ LET tag  == imp.manifest[imp.i]
           made == ManifestStep(registries, tag)
       IN  Step("manifest", imp.i + 1,
                IF made.id = 0 THEN "doc" ELSE "type",
                IF made.id = 0 THEN NoClass ELSE made.R.classes[made.id], made)

\* a class statement of importing code
DefineClass ==
    /\ imp.pc = "done" /\ imp.defs < MaxUserDefs
    /\ \E cls \in UserClasses :
           LET made == ClassStatement(registries, cls)
           IN  /\ registries' = made.R
               /\ imp' = [imp EXCEPT !.defs = @ + 1, !.op = "class", !.cls = cls,
                                     !.raised = made.raised,
                                     !.before = Tables(registries)]
    /\ UNCHANGED <<validate, strict_validation, tagSchema, heap, nodes, last, rs, eng, calls>>

NextReg == HandStatement \/ SynthesizeTag \/ EndOfManifest \/ DefineClass

SpecReg == InitReg /\ [][NextReg]_vars

----------------------------------------------------------------------------
(* Claims about the registries (SpecReg).                                  *)

\* the last step defined a class (a class statement or a type(...) call)
Defined == imp.op \in {"class", "type"}

ByTagTables == {"obj", "list", "scalar"}
AllTables   == ByTagTables \cup {"byKey"}

\* no entry of table t that `before` holds is gone or maps elsewhere in `after`
Kept(before, after, t) ==
    \A k \in DOMAIN before[t] : k \in DOMAIN after[t] /\ after[t][k] = before[t][k]

\* C9: defining a class whose tag is already present in a registry raises
\* at class-definition time and leaves every registry, the scalar by-key
\* table included, unchanged; no registry entry is ever overwritten after
\* it is first written.
C9_DuplicateTagRaises ==
    /\ (Defined /\ \E t \in ByTagTables : imp.cls.tag \in DOMAIN imp.before[t])
           => (imp.raised /\ Tables(registries) = imp.before)
    /\ \A t \in AllTables : Kept(imp.before, Tables(registries), t)

\* the by-tag tables that hold a tag
TablesOf(tag) == {t \in ByTagTables : tag \in DOMAIN Tables(registries)[t]}

\* C10: after class synthesis over any manifest every manifest tag is a key
\* of exactly one of the three registries, and no class is registered under
\* two distinct tags.
C10_EveryManifestTagRegistered ==
    (imp.pc = "done" /\ imp.defs = 0)
        => /\ \A i \in 1..Len(imp.manifest) :
                  Cardinality(TablesOf(imp.manifest[i].tag_uri)) = 1
           /\ \A t1, t2 \in ByTagTables :
                  \A k1 \in DOMAIN Tables(registries)[t1], k2 \in DOMAIN Tables(registries)[t2] :
                      Tables(registries)[t1][k1] = Tables(registries)[t2][k2]
                          => (t1 = t2 /\ k1 = k2)

----------------------------------------------------------------------------
(* SpecFlat: flattening.  A tree is a leaf value, a dict (its items, in    *)
(* insertion order) or a list.  A string that takes part in a path is the  *)
(* sequence of its pieces, "." being a piece of its own, so that joining   *)
(* with dots is concatenation and a key may itself hold a dot.             *)

MaxSeq == 2

Leaf(v)         == [k |-> "leaf", v |-> v]
DictTree(items) == [k |-> "dict", items |-> items]
ListTree(items) == [k |-> "list", items |-> items]
Item(key, val)  == [key |-> key, val |-> val]

VArray == Val(<<>>, "ndarray", "x")        \* np.ndarray
VLazy  == Val(<<>>, "NDArrayType", "x")    \* asdf.tags.core.ndarray.NDArrayType

\* str(i) of a list index
IndexStr(i) == <<CASE i = 0 -> "0" [] i = 1 -> "1" [] i = 2 -> "2" [] OTHER -> "3">>

\* '.'.join(str(x) for x in path)
RECURSIVE Join(_)
Join(path) ==
    IF path = <<>> THEN <<>>
    ELSE IF Len(path) = 1 THEN path[1]
    ELSE path[1] \o <<".">> \o Join(Tail(path))

\* the mapping protocol of the node's base class over the wrapped mapping:
\* the (key, value) pairs of the raw mapping
items(tree) == tree.items

\* DataModel.items: recurse(tree, path), the pairs it yields in order
RECURSIVE recurse(_, _), recurseFrom(_, _, _)
recurseFrom(tree, path, i) ==
    IF i > Len(tree.items) THEN <<>>
    ELSE (IF tree.k = "dict"
          THEN recurse(items(tree)[i].val, Append(path, items(tree)[i].key))
          ELSE recurse(tree.items[i], Append(path, IndexStr(i - 1))))
         \o recurseFrom(tree, path, i + 1)

recurse(tree, path) ==
    IF tree.k \in {"dict", "list"} THEN recurseFrom(tree, path, 1)
    ELSE IF tree.v.t # "null" THEN <<Item(Join(path), tree)>>
    ELSE <<>>

\* convert_val: a datetime as its isoformat, a Time as str(val)
convert_val(val) ==
    IF val.k = "leaf" /\ val.v.t = "time" THEN Leaf(Val(<<>>, "str", val.v.v)) ELSE val

\* dict(pairs): the last pair of a key wins
dict(pairs) ==
    [key \in {pairs[i].key : i \in 1..Len(pairs)} |->
        LET i == CHOOSE i \in 1..Len(pairs) :
                     /\ pairs[i].key = key
                     /\ \A j \in (i + 1)..Len(pairs) : pairs[j].key # key
        IN  pairs[i].val]

IsInstance(val, types) == val.k = "leaf" /\ val.v.t \in types

\* the generator expression of to_flat_dict
RECURSIVE FlatPairs(_, _, _, _)
FlatPairs(pairs, prefix, include_arrays, arrays) ==
    IF pairs = <<>> THEN <<>>
    ELSE LET x == Head(pairs)
         IN  (IF include_arrays \/ ~IsInstance(x.val, arrays)
              THEN <<Item(prefix \o x.key, convert_val(x.val))>> ELSE <<>>)
             \o FlatPairs(Tail(pairs), prefix, include_arrays, arrays)

\* DNode.to_flat_dict
to_flat_dict(tree, include_arrays) ==
    dict(FlatPairs(items(tree), <<>>, include_arrays, {"ndarray", "NDArrayType"}))

\* DataModel.to_flat_dict
DataModel_to_flat_dict(tree, include_arrays) ==
    dict(FlatPairs(recurse(tree, <<>>), <<"roman", ".">>, include_arrays, {"ndarray"}))

FlatLeaves == {Leaf(VNum("1")), Leaf(VNull), Leaf(VArray), Leaf(VLazy),
               Leaf(VTime("2020-01-01"))}

FlatDicts ==
    {DictTree(<<>>)}
    \cup {DictTree(<<Item(<<"b">>, l)>>) : l \in FlatLeaves}
    \cup {DictTree(<<Item(<<"b">>, l), Item(<<"c">>, m)>>) : l, m \in FlatLeaves}

FlatLists == {ListTree(q) : q \in UNION {[1..n -> FlatLeaves] : n \in 0..MaxSeq}}

\* {a: {b: 1, c: [2, 3]}}
FlatExample ==
    DictTree(<<Item(<<"a">>, DictTree(<<Item(<<"b">>, Leaf(VNum("1"))),
        Item(<<"c">>, ListTree(<<Leaf(VNum("2")), Leaf(VNum("3"))>>))>>))>>)

FlatRoots ==
    {FlatExample}
    \cup {DictTree(<<Item(<<"a">>, t)>>) : t \in FlatLeaves \cup FlatDicts \cup FlatLists}
    \cup {DictTree(<<Item(<<"a">>, t), Item(<<"a", ".", "b">>, Leaf(VNum("7")))>>) :
             t \in FlatDicts}

Flattened(fn, include_arrays, result) ==
    [fn |-> fn, tree |-> flat.tree, include_arrays |-> include_arrays, result |-> result]

InitFlat ==
    /\ validate = TRUE
    /\ strict_validation = TRUE
    /\ registries = EmptyRegistries
    /\ imp = ImpIdle
    /\ tagSchema = EmptySchema
    /\ heap = <<>>
    /\ nodes = <<>>
    /\ last = NoWrite
    /\ rs = RsIdle
    /\ eng = EngIdle
    /\ \E tree \in FlatRoots : flat = [fn |-> "DNode", tree |-> tree]
    /\ ctor = NoCall /\ opn = NoCall

\* node.to_flat_dict(include_arrays)
NodeToFlatDict ==
    /\ \E include_arrays \in BOOLEAN :
           flat' = Flattened("DNode.to_flat_dict", include_arrays,
                             to_flat_dict(flat.tree, include_arrays))
    /\ UNCHANGED <<validate, strict_validation, registries, imp, tagSchema,
                   heap, nodes, last, rs, eng, ctor, opn>>

\* DataModel(node).to_flat_dict(include_arrays)
ModelToFlatDict ==
    /\ \E include_arrays \in BOOLEAN :
           flat' = Flattened("DataModel.to_flat_dict", include_arrays,
                             DataModel_to_flat_dict(flat.tree, include_arrays))
    /\ UNCHANGED <<validate, strict_validation, registries, imp, tagSchema,
                   heap, nodes, last, rs, eng, ctor, opn>>

\* dict(DataModel(node).items())
ModelItems ==
    /\ flat' = Flattened("DataModel.items", TRUE, dict(recurse(flat.tree, <<>>)))
    /\ UNCHANGED <<validate, strict_validation, registries, imp, tagSchema,
                   heap, nodes, last, rs, eng, ctor, opn>>

NextFlat == NodeToFlatDict \/ ModelToFlatDict \/ ModelItems

SpecFlat == InitFlat /\ [][NextFlat]_vars

----------------------------------------------------------------------------
(* Claims about flattening (SpecFlat).                                     *)

\* the paths (keys and indices from the root) of the leaf values of a tree
RECURSIVE LeafPaths(_)
LeafPaths(tree) ==
    IF tree.k = "leaf" THEN {<<>>}
    ELSE UNION {{<<IF tree.k = "dict" THEN tree.items[i].key ELSE IndexStr(i - 1)>> \o p :
                    p \in LeafPaths(IF tree.k = "dict" THEN tree.items[i].val
                                    ELSE tree.items[i])} :
                i \in 1..Len(tree.items)}

RECURSIVE LeafAt(_, _)
LeafAt(tree, p) ==
    IF p = <<>> THEN tree
    ELSE LET i == CHOOSE i \in 1..Len(tree.items) :
                      p[1] = IF tree.k = "dict" THEN tree.items[i].key ELSE IndexStr(i - 1)
         IN  LeafAt(IF tree.k = "dict" THEN tree.items[i].val ELSE tree.items[i], Tail(p))

IsArray(leaf) == leaf.v.t \in {"ndarray", "NDArrayType"}

\* the leaves a flattening keeps
KeptPaths ==
    {p \in LeafPaths(flat.tree) : flat.include_arrays \/ ~IsArray(LeafAt(flat.tree, p))}

\* the key of the leaf at path p: the model façade holds its tree under the
\* key "roman" of the file's tree, and its paths start there
PathKey(p) ==
    (IF flat.fn = "DataModel.to_flat_dict" THEN <<"roman", ".">> ELSE <<>>) \o Join(p)

\* C11: flattening a tree yields exactly one entry per leaf value, keyed by
\* the dot-joined path of keys and indices from the root, through every
\* nested mapping and sequence; with include-arrays false exactly the
\* opaque-array leaves are omitted.
C11_FlattenOneEntryPerLeaf ==
    flat.fn \in {"DNode.to_flat_dict", "DataModel.to_flat_dict"}
        => /\ Cardinality(DOMAIN flat.result) = Cardinality(KeptPaths)
           /\ \A p \in KeptPaths :
                  /\ PathKey(p) \in DOMAIN flat.result
                  /\ flat.result[PathKey(p)] = convert_val(LeafAt(flat.tree, p))

----------------------------------------------------------------------------
(* SpecCtor: construction of mapping nodes and sequence nodes.  The heap   *)
(* holds the dict and list objects by identity; an argument is None, a     *)
(* reference to a dict or list of the heap, or a scalar.                   *)

MaxCtor == 3

VList(l) == Val(<<>>, "list", l)

\* an LNode instance: self.data
ListNode(data) == [data |-> data]

CtorHeap ==
    ("d0" :> ("a" :> VStr("STSCI"))) @@ ("l0" :> <<VStr("STSCI")>>)

\* isinstance(node, dict) / isinstance(node, list)
CtorArgs(h) ==
    {VNull, VStr("STSCI"), VNum("1")}
    \cup {VDict(d) : d \in {"d0"} \cup (DOMAIN h \cap {"e1"})}
    \cup {VList(l) : l \in {"l0"} \cup (DOMAIN h \cap {"e2"})}

Constructed(fn, node, outcome, made) ==
    [fn |-> fn, arg |-> node, outcome |-> outcome, made |-> made]

\* DNode.__init__(node, parent=None, name=None)
DNode__init__(h, ns, node) ==
    IF node = VNull
    THEN LET id == Fresh(h)
         IN  [heap |-> (id :> <<>>) @@ h, nodes |-> Append(ns, Node(id, 0, "", FALSE)),
              ctor |-> Constructed("DNode", node, "ok", Len(ns) + 1)]
    ELSE IF node.t = "dict"
    THEN [heap |-> h, nodes |-> Append(ns, Node(node.v, 0, "", FALSE)),
          ctor |-> Constructed("DNode", node, "ok", Len(ns) + 1)]
    ELSE [heap |-> h, nodes |-> ns, ctor |-> Constructed("DNode", node, "ValueError", 0)]

\* LNode.__init__(node)
LNode__init__(h, ns, node) ==
    IF node = VNull
    THEN LET id == Fresh(h)
         IN  [heap |-> (id :> <<>>) @@ h, nodes |-> Append(ns, ListNode(id)),
              ctor |-> Constructed("LNode", node, "ok", Len(ns) + 1)]
    ELSE IF node.t = "list"
    THEN [heap |-> h, nodes |-> Append(ns, ListNode(node.v)),
          ctor |-> Constructed("LNode", node, "ok", Len(ns) + 1)]
    ELSE [heap |-> h, nodes |-> ns, ctor |-> Constructed("LNode", node, "ValueError", 0)]

InitCtor ==
    /\ validate = TRUE
    /\ strict_validation = TRUE
    /\ registries = EmptyRegistries
    /\ imp = ImpIdle
    /\ tagSchema = EmptySchema
    /\ heap = CtorHeap
    /\ nodes = <<>>
    /\ last = NoWrite
    /\ rs = RsIdle
    /\ eng = EngIdle
    /\ flat = NoCall /\ ctor = NoCall /\ opn = NoCall

NewDNode ==
    \E node \in CtorArgs(heap) :
        LET done == DNode__init__(heap, nodes, node)
        IN  /\ Len(done.nodes) <= MaxCtor
            /\ heap' = done.heap /\ nodes' = done.nodes /\ ctor' = done.ctor
            /\ UNCHANGED <<validate, strict_validation, registries, imp, tagSchema,
                           last, rs, eng, flat, opn>>

NewLNode ==
    \E node \in CtorArgs(heap) :
        LET done == LNode__init__(heap, nodes, node)
        IN  /\ Len(done.nodes) <= MaxCtor
            /\ heap' = done.heap /\ nodes' = done.nodes /\ ctor' = done.ctor
            /\ UNCHANGED <<validate, strict_validation, registries, imp, tagSchema,
                           last, rs, eng, flat, opn>>

NextCtor == NewDNode \/ NewLNode

SpecCtor == InitCtor /\ [][NextCtor]_vars

----------------------------------------------------------------------------
(* Claims about construction (SpecCtor).                                   *)

\* what the class of the call accepts besides None
Accepts(fn) == IF fn = "DNode" THEN "dict" ELSE "list"

WrongInput(call) == call.arg # VNull /\ call.arg.t # Accepts(call.fn)

\* the step constructed a node from None over a new empty object that no
\* earlier node wraps, leaving every other object as it was
FreshEmpty ==
    /\ ctor'.outcome = "ok"
    /\ nodes' = Append(nodes, nodes'[Len(nodes')])
    /\ LET id == nodes'[Len(nodes')].data
       IN  /\ id \notin DOMAIN heap
           /\ DOMAIN heap' = DOMAIN heap \cup {id}
           /\ DOMAIN heap'[id] = {}
           /\ \A o \in DOMAIN heap : heap'[o] = heap[o]
           /\ \A i \in 1..Len(nodes) : nodes[i].data # id

\* the step refused its argument with the error e and built nothing
RefusedWith(e) == ctor'.outcome = e /\ nodes' = nodes /\ heap' = heap

\* C15 as stated: an argument of the wrong kind is refused with a
\* TypeError, and None yields a node over a fresh empty object
C15_WrongInputTypeError ==
    [][/\ WrongInput(ctor') => RefusedWith("TypeError")
       /\ ctor'.arg = VNull => FreshEmpty]_vars

\* C15: a mapping node built from anything but a dict or None, and a
\* sequence node built from anything but a list or None, is refused with
\* a ValueError and nothing is built; built from None, the node wraps a new
\* empty object that no other node wraps.
C15_WrongInputValueError ==
    [][/\ WrongInput(ctor') => RefusedWith("ValueError")
       /\ ctor'.arg = VNull => FreshEmpty]_vars

\* a second node built from None next to a first one
C15_Witness ==
    /\ ctor.fn = "DNode" /\ ctor.arg = VNull /\ ctor.outcome = "ok"
    /\ Len(nodes) = 3
    /\ nodes[1].data \in ObjIds /\ nodes[3].data \in ObjIds
    /\ nodes[1].data # nodes[3].data

----------------------------------------------------------------------------
(* SpecOpen: the factory datamodels.open.  A class is its name; an ASDF    *)
(* file is the type of the node under its 'roman' key; a data model is its *)
(* class, the file it wraps and whether it is a copy.                      *)

\* the classes that may be passed as target, and their base classes
ModelClasses == {"DataModel", "ImageModel", "RampModel"}
OpenClasses  == ModelClasses \cup {"dict"}
BaseOf ==
    ("DataModel" :> "object") @@ ("ImageModel" :> "DataModel")
    @@ ("RampModel" :> "DataModel") @@ ("dict" :> "object")

issubclass(cls, target) ==
    cls = target \/ (cls \in DOMAIN BaseOf /\ BaseOf[cls] = target)

\* the node types a file's tree['roman'] may have; dict is a type the
\* registry does not list
RootTypes == {"WfiImage", "Ramp", "dict"}

model_registry == ("WfiImage" :> "ImageModel") @@ ("Ramp" :> "RampModel")

PyNone == [t |-> "None"]
AsdfFile(root, copy_arrays) == [t |-> "AsdfFile", root |-> root, copy_arrays |-> copy_arrays]
AsdfInFits(root) == [t |-> "AsdfInFits", root |-> root, copy_arrays |-> FALSE]
Unreadable == [t |-> "str", root |-> "", copy_arrays |-> FALSE]
Model(cls, asdffile, iscopy) ==
    [t |-> "DataModel", cls |-> cls, asdf |-> asdffile, iscopy |-> iscopy]

\* isinstance(init, target) for a data model
isinstance(model, target) == issubclass(model.cls, target)

\* DataModel.copy
copy(model) == [model EXCEPT !.iscopy = TRUE]

Returned(value) == [outcome |-> "return", value |-> value]
Raised(e)       == [outcome |-> e, value |-> PyNone]

\* lines 433-444: the `else` belongs to `if target is not None`, so with a
\* target that matches control reaches the end of the function
OpenTail(asdffile, target) ==
    IF asdffile.root \in DOMAIN model_registry
    THEN LET rmodel == Model(model_registry[asdffile.root], asdffile, FALSE)
         IN  IF target # "None"
             THEN IF ~issubclass(rmodel.cls, target)
                  THEN Raised("ValueError")
                  ELSE Returned(PyNone)
             ELSE Returned(rmodel)
    ELSE Returned(Model("DataModel", asdffile, FALSE))

\* datamodels.open(init, memmap, target); an init that is a path is given
\* as what asdf.open makes of it with copy_arrays = not memmap
open(init, memmap, target) ==
    IF target # "None" /\ ~issubclass(target, "DataModel")
    THEN Raised("ValueError")
    ELSE IF init.t = "AsdfFile"
    THEN OpenTail(init, target)
    ELSE IF init.t = "DataModel"
    THEN IF target # "None"
         THEN IF ~isinstance(init, target)
              THEN Raised("ValueError")
              ELSE Returned(init)
         ELSE Returned(copy(init))
    ELSE LET asdffile == init.opens
         IN  IF asdffile.t = "str" THEN Raised("TypeError")
             ELSE IF asdffile.t = "AsdfInFits" THEN Raised("TypeError")
             ELSE OpenTail([asdffile EXCEPT !.copy_arrays = ~memmap], target)

Path(asdffile) == [t |-> "path", opens |-> asdffile]

OpenInits ==
    {AsdfFile(root, c) : root \in RootTypes, c \in BOOLEAN}
    \cup {Model(cls, AsdfFile(root, FALSE), c) :
             cls \in ModelClasses, root \in {"WfiImage"}, c \in BOOLEAN}
    \cup {Path(AsdfFile(root, FALSE)) : root \in RootTypes}
    \cup {Path(AsdfInFits("WfiImage")), Path(Unreadable)}

OpenTargets == OpenClasses \cup {"None"}

Opened(init, memmap, target) ==
    [fn |-> "open", init |-> init, memmap |-> memmap, target |-> target,
     result |-> open(init, memmap, target)]

InitOpen ==
    /\ validate = TRUE
    /\ strict_validation = TRUE
    /\ registries = EmptyRegistries
    /\ imp = ImpIdle
    /\ tagSchema = EmptySchema
    /\ heap = <<>>
    /\ nodes = <<>>
    /\ last = NoWrite
    /\ rs = RsIdle
    /\ eng = EngIdle
    /\ flat = NoCall /\ ctor = NoCall /\ opn = NoCall

\* open(init, ...) with an asdf.AsdfFile instance
OpenAsdfFile ==
    /\ \E init \in {i \in OpenInits : i.t = "AsdfFile"},
          memmap \in BOOLEAN, target \in OpenTargets :
           opn' = Opened(init, memmap, target)
    /\ UNCHANGED <<validate, strict_validation, registries, imp, tagSchema,
                   heap, nodes, last, rs, eng, flat, ctor>>

\* open(init, ...) with a DataModel instance
OpenModel ==
    /\ \E init \in {i \in OpenInits : i.t = "DataModel"},
          memmap \in BOOLEAN, target \in OpenTargets :
           opn' = Opened(init, memmap, target)
    /\ UNCHANGED <<validate, strict_validation, registries, imp, tagSchema,
                   heap, nodes, last, rs, eng, flat, ctor>>

\* open(init, ...) with a path
OpenPath ==
    /\ \E init \in {i \in OpenInits : i.t = "path"},
          memmap \in BOOLEAN, target \in OpenTargets :
           opn' = Opened(init, memmap, target)
    /\ UNCHANGED <<validate, strict_validation, registries, imp, tagSchema,
                   heap, nodes, last, rs, eng, flat, ctor>>

NextOpen == OpenAsdfFile \/ OpenModel \/ OpenPath

SpecOpen == InitOpen /\ [][NextOpen]_vars

----------------------------------------------------------------------------
(* Claims about open (SpecOpen).                                           *)

\* the model the init argument implies: the file it is or opens to
Implies(init) ==
    IF init.t = "AsdfFile" THEN init
    ELSE IF init.t = "DataModel" THEN init.asdf
    ELSE init.opens

\* the init argument is a data model or an ASDF file asdf can read
Readable(init) == Implies(init).t = "AsdfFile"

IsModelOf(value, target) == value.t = "DataModel" /\ issubclass(value.cls, target)

\* C16: open with a target, on an init that is or opens to an ASDF file,
\* either returns a data model that is an instance of the target or
\* raises ValueError.
C16_TargetIsHonoured ==
    (opn.fn = "open" /\ opn.target # "None" /\ Readable(opn.init))
    => \/ opn.result.outcome = "ValueError"
       \/ opn.result.outcome = "return" /\ IsModelOf(opn.result.value, opn.target)

----------------------------------------------------------------------------
(* SpecTree: reads and writes on a tree three mappings deep, root.meta.sub, *)
(* so that reads reach a grandchild of the tagged root and may wrap the     *)
(* same mapping in more than one instance.                                  *)

MaxTreeNodes == 3

TreeKeys      == {"meta", "sub", "a", "b"}
TreeWriteKeys == {"a", "b"}

TreeSchemas ==
    {RootDirect(MetaDirect, FEnum), RootAllOf(MetaPropsOther, FEnum)}

TreeHeap ==
    ("d0" :> (("origin" :> VStr("STSCI")) @@ ("meta" :> VDict("d1"))))
    @@ ("d1" :> (("a" :> VStr("STSCI")) @@ ("sub" :> VDict("d2"))))
    @@ ("d2" :> ("a" :> VStr("STSCI")))

InitTree ==
    /\ validate = TRUE
    /\ strict_validation = TRUE
    /\ registries = Imported(RadManifest)
    /\ imp = ImpIdle
    /\ tagSchema \in TreeSchemas
    /\ heap = TreeHeap
    /\ nodes = <<Node("d0", 0, "", TRUE)>>
    /\ last = NoWrite
    /\ rs = RsIdle
    /\ eng = EngIdle
    /\ flat = NoCall /\ ctor = NoCall /\ opn = NoCall

\* node.key = value on an instance of the tree
TreeWrite ==
    \E n \in 1..Len(nodes), key \in TreeWriteKeys, value \in Values, elen \in ErrLens :
        LET done == __setattr__(n, key, value, elen)
        IN  /\ heap' = done.heap
            /\ nodes' = done.nodes
            /\ last' = done.last
            /\ UNCHANGED <<validate, strict_validation, registries, imp, tagSchema,
                           rs, eng, calls>>

\* node.key on an instance of the tree
TreeRead ==
    \E n \in 1..Len(nodes), key \in TreeKeys :
        LET done == __getattr__(n, key)
        IN  /\ Len(done.nodes) <= MaxTreeNodes
            /\ heap' = done.heap
            /\ nodes' = done.nodes
            /\ last' = done.last
            /\ UNCHANGED <<validate, strict_validation, registries, imp, tagSchema,
                           rs, eng, calls>>

NextTree == SetValidate \/ SetStrict \/ TreeWrite \/ TreeRead

SpecTree == InitTree /\ [][NextTree]_vars

----------------------------------------------------------------------------
(* Claims about schema resolution and aliasing in the tree (SpecTree).     *)

\* the last step was a write that reached the validation of an existing key
ValidatedWrite ==
    /\ WroteExisting /\ validate
    /\ ~OutsideEnumeration /\ Promoted.ok

\* number of attribute reads that lead from the root to instance n
RECURSIVE Depth(_)
Depth(n) == IF nodes[n].parent = 0 THEN 0 ELSE 1 + Depth(nodes[n].parent)

\* the successive subschema extraction along the chain of reads that made
\* instance n, from the root's schema fetched by tag
RECURSIVE ChainSchema(_)
ChainSchema(n) ==
    IF nodes[n].tagged THEN tagSchema
    ELSE _get_schema_for_property(ChainSchema(nodes[n].parent), nodes[n].name)

\* C17: a validated write on an instance reached from the tagged root by
\* attribute reads of any depth resolves: it does not fail in the lookup,
\* and the instance's fragment is the successive extraction of the keys of
\* the chain from the root's schema (the root's own schema for the root).
C17_ChainResolves ==
    ValidatedWrite
    => /\ last.resolved
       /\ last.outcome # "AttributeError"
       /\ nodes[last.node].cached
       /\ nodes[last.node].x_schema = ChainSchema(last.node)

\* the fragment cached on an instance is neither changed nor cleared
CacheKept ==
    \A n \in 1..Len(nodes) :
        nodes[n].cached => /\ nodes'[n].cached
                           /\ nodes'[n].x_schema = nodes[n].x_schema

\* C18: a write that performs the schema lookup of its instance leaves the
\* fragment cached on it, so that no later write on the instance looks it
\* up again; and no step (read, write, failed write, change of a flag)
\* changes or clears a cached fragment.
C18_LookupOnceAndKept ==
    [][/\ (last'.op = "write" /\ last'.lookup) => nodes'[last'.node].cached
       /\ CacheKept]_vars

\* instance c was returned by a read of key k on instance p
ChildOf(c, p, k) == nodes[c].parent = p /\ nodes[c].name = k

\* what a fresh read parent.k.<key> returns: the read of key on a new
\* wrapper of the mapping now stored under k in instance p's mapping
FreshRead(p, k, key) ==
    LET under == heap[heap[nodes[p].data][k].v]
    IN  IF key \in DOMAIN under THEN _convert_to_scalar(key, under[key]).value
        ELSE NoValue

\* the step is a read that returned a child: a new instance, with no
\* fragment cached, over the very mapping stored under the key, and every
\* instance and mapping there was is left as it was
NewChild ==
    LET p == last'.node
        c == last'.child
    IN  /\ c = Len(nodes) + 1
        /\ nodes' = Append(nodes, nodes'[c])
        /\ nodes'[c].parent = p /\ nodes'[c].name = last'.key
        /\ ~nodes'[c].cached /\ ~nodes'[c].tagged
        /\ nodes'[c].data = heap[nodes[p].data][last'.key].v
        /\ heap' = heap

\* every child instance wraps the mapping its parent stores under its name
Aliased ==
    \A c \in 1..Len(nodes) :
        nodes[c].parent # 0 =>
            nodes[c].data = heap[nodes[nodes[c].parent].data][nodes[c].name].v

\* the value the last step committed through a child instance is what a
\* fresh read through the parent returns
CommittedVisible ==
    (Wrote /\ last.outcome = "ok" /\ nodes[last.node].parent # 0)
        => FreshRead(nodes[last.node].parent, nodes[last.node].name, last.key)
               = Promoted.value

====
